---------------------------- MODULE Spec2Model ----------------------------
(***************************************************************************)
(* Model of plus/connection.py: the session token kept in `config` under   *)
(* token_semaphore, authentify(), and the request dispatcher               *)
(* (getData / postData / sendData / putData).                              *)
(*                                                                         *)
(* Spec      one caller; the network, the keychain and the clock are the   *)
(*           environment, one action per step between two network sends.   *)
(* SpecConc  several threads running getToken / getNickname / setToken /   *)
(*           clearCredentials statement by statement.                      *)
(***************************************************************************)
EXTENDS Integers, Sequences, FiniteSets, TLC

None == "None"          \* Python None
Absent == "<absent>"    \* key not in the dict
Null == "<null>"        \* JSON null where an object is expected

\* config.expired_subscription_max_days (read at line 268)
expired_subscription_max_days == 90

Tokens == {"t1", "t2"}
RespTokens == {"t2"}
Nicknames == {"n1"}
\* the nickname a session writer stores together with token t
NickOf(t) == IF t = "t1" THEN "n1" ELSE "n2"
Statuses == {200, 401, 404}

\* A timestamp is a calendar day and a time of day (0 = morning, 1 = evening);
\* kind "absent": no paidUntil key, "bad": a string that is no ISO-8601 date.
Timestamp(day, late) == [kind |-> "date", day |-> day, late |-> late]
NoDate(k) == [kind |-> k, day |-> 0, late |-> 0]
Today == 0
PaidDays == {Today - expired_subscription_max_days - 1,
             Today - expired_subscription_max_days,
             Today + 1}
PaidUntilValues == {NoDate(Absent), NoDate("bad")} \cup
                   {Timestamp(d, 0) : d \in PaidDays}
Clock == {Timestamp(Today, l) : l \in {0, 1}}

\* res["result"]["user"]["account"]: every paidUntil in a complete account,
\* every limit and id in an account without paidUntil
AccountObjects ==
    {a \in [kind : {"object"}, paidUntil : PaidUntilValues,
            limit : {Absent, Null, "object"}, id : {Absent, "id1"}] :
        a.paidUntil.kind = Absent \/ (a.limit = "object" /\ a.id = "id1")}
NoAccount(k) == [kind |-> k, paidUntil |-> NoDate(Absent), limit |-> Absent,
                 id |-> Absent]
Accounts == AccountObjects \cup {NoAccount(Absent), NoAccount(Null)}

\* res["result"]["user"]
UserObjects == [kind : {"object"}, token : RespTokens \cup {Absent},
                nickname : {""} \cup Nicknames, account : Accounts]
NoUser(k) == [kind |-> k, token |-> Absent, nickname |-> Absent,
              account |-> NoAccount(Absent)]
Users == UserObjects \cup {NoUser(Absent), NoUser(Null)}

\* res["result"]
ResultObjects == [kind : {"object"}, user : Users]
NoResult(k) == [kind |-> k, user |-> NoUser(Absent)]
Results == ResultObjects \cup {NoResult(Absent), NoResult(Null)}

\* res = r.json() of the authentication reply; an error string comes with a
\* reply that is no success or whose subscription has long expired
ResObjects ==
    {x \in [kind : {"object"}, success : {Absent, "true", "false"},
            result : Results, error : {Absent, "e1"}] :
        \/ x.error = Absent
        \/ x.success # "true"
        \/ x.result.user.account.paidUntil
              = Timestamp(Today - expired_subscription_max_days - 1, 0)}
NoRes(k) == [kind |-> k, success |-> Absent, result |-> NoResult(Absent),
             error |-> Absent]
Responses == ResObjects \cup {NoRes(Null)}

\* a reply to the target request: its status and the attempt that got it
Reply(status, attempt) == [status |-> status, attempt |-> attempt]
NoReply == Reply(0, 0)

\* what the running call gave back to its caller
Returned(kind, reply) == [kind |-> kind, reply |-> reply]
Running == Returned("running", NoReply)

\* config.post_compression_threshold (read at line 359), in bytes
post_compression_threshold == 2

\* config.compress_posts, the default of postData's compress (line 372)
compress_posts == TRUE

\* json.dumps(data).encode("utf8"), line 376: one payload whose size is the
\* threshold and one that exceeds it by a byte
Payloads == {<<1, 1>>, <<1, 1, 2>>}
\* the serialized {"email": ..., "password": ...} of line 211
LoginData == <<3, 4, 4>>

\* gzip.compress, line 360, as a run-length code: <<n1, b1, n2, b2, ...>>
RECURSIVE RunLength(_, _)
RunLength(bytes, n) ==
    IF bytes = <<>> THEN <<>>
    ELSE IF Len(bytes) > 1 /\ bytes[1] = bytes[2]
    THEN RunLength(Tail(bytes), n + 1)
    ELSE <<n, bytes[1]>> \o RunLength(Tail(bytes), 1)

gzip_compress(bytes) == RunLength(bytes, 1)

\* what the receiver of a 'Content-Encoding: gzip' body does with it;
\* <<0>> when the body is no compressed stream
RECURSIVE gzip_decompress(_)
gzip_decompress(body) ==
    IF body = <<>> THEN <<>>
    ELSE IF Len(body) < 2 \/ body[1] < 1 THEN <<0>>
    ELSE LET rest == gzip_decompress(Tail(Tail(body)))
         IN IF rest = <<0>> THEN <<0>>
            ELSE [i \in 1 .. body[1] |-> body[2]] \o rest

\* the headers of a request; Authorization holds the token of
\* 'Bearer <token>' or Absent, the other fields tell whether the header is set
Headers(authorization, acceptEncoding, contentType, contentEncoding) ==
    [Authorization |-> authorization, AcceptEncoding |-> acceptEncoding,
     ContentType |-> contentType, ContentEncoding |-> contentEncoding]

\* a request as built: the authorized flag it was built with, headers, body
Request(authorized, headers, data) ==
    [authorized |-> authorized, headers |-> headers, data |-> data]
NoRequest == Request(FALSE, Headers(Absent, FALSE, FALSE, FALSE), <<>>)

\* an access to a session field and whether token_semaphore was held
Access(field, held) == [field |-> field, held |-> held]

\* threads that use the session concurrently
NumThreads == 2
Threads == 1 .. NumThreads

VARIABLES config, token_semaphore, keyring, messages,
          pc, call, sends, logins, authCalls, replies, ret, res, now, authret,
          fetched, th, request, sent, limits, accesses

seqvars == <<messages, pc, call, sends, logins, authCalls, replies, ret, res,
             now, authret, fetched, request, sent, limits, accesses>>

vars == <<config, token_semaphore, keyring, seqvars, th>>

-----------------------------------------------------------------------------
(* Session state: lines 48-130 *)

\* mutant: the test of the finally clause is inverted
Release_Inverted(available, count) ==
    IF available >= 1 THEN count + 1 ELSE count

\* if token_semaphore.available() < 1: token_semaphore.release(1)
\* `available` is what available() returned, `count` the semaphore's count
\* when release(1) runs.
Release(available, count) == IF available < 1 THEN count + 1 ELSE count

getToken(c) == c.token

getNickname(c) == c.nickname

\* setToken: token and nickname are written, then config.app_window.qmc is
\* dereferenced, which raises when the application window is not bound.
setToken(c, token, nickname) ==
    [config |-> [c EXCEPT !.token = token, !.nickname = nickname],
     raised |-> ~c.app_window]

\* mutant: line 126 is missing, the nickname survives the clear
clearCredentials_KeepsNickname(c, kr, remove_from_keychain, deleteFails) ==
    LET kr2 == IF c.app_window /\ c.plus_account # None
                  /\ remove_from_keychain /\ ~deleteFails
               THEN None ELSE kr
    IN IF c.app_window
       THEN [config |-> [c EXCEPT !.token = None, !.plus_account = None,
                                  !.passwd = None, !.account_nr = None],
             keyring |-> kr2, raised |-> FALSE]
       ELSE [config |-> [c EXCEPT !.token = None],
             keyring |-> kr2, raised |-> TRUE]

\* clearCredentials: keychain entry removed when asked and an account is
\* configured (a failing delete is logged and swallowed); then the session
\* fields are set to None one after the other.  The second assignment
\* dereferences config.app_window and raises when it is not bound.
clearCredentials(c, kr, remove_from_keychain, deleteFails) ==
    LET kr2 == IF c.app_window /\ c.plus_account # None
                  /\ remove_from_keychain /\ ~deleteFails
               THEN None ELSE kr
    IN IF c.app_window
       THEN [config |-> [c EXCEPT !.token = None, !.plus_account = None,
                                  !.passwd = None, !.nickname = None,
                                  !.account_nr = None],
             keyring |-> kr2, raised |-> FALSE]
       ELSE [config |-> [c EXCEPT !.token = None],
             keyring |-> kr2, raised |-> TRUE]

-----------------------------------------------------------------------------
(* authentify: lines 159-317 *)

\* extractUserInfo: the value when the key is present and a non-empty string
extractUserInfo(value, default) ==
    IF value # Absent /\ value # "" THEN value ELSE default

\* mutant: the success flag is not tested
SuccessShape_IgnoresFlag(x) ==
    IF x.kind # "object" THEN "raise"
    ELSE IF x.result.kind = Absent THEN "no"
    ELSE IF x.result.kind = Null THEN "raise"
    ELSE IF x.result.user.kind = Absent THEN "no"
    ELSE IF x.result.user.kind = Null THEN "raise"
    ELSE IF x.result.user.token = Absent THEN "no"
    ELSE "yes"

\* The test of lines 222-228, evaluated left to right with short circuit:
\* "yes", "no", or "raise" when `in` is applied to a value that is no container.
SuccessShape(x) ==
    IF x.kind # "object" THEN "raise"
    ELSE IF x.success # "true" THEN "no"
    ELSE IF x.result.kind = Absent THEN "no"
    ELSE IF x.result.kind = Null THEN "raise"
    ELSE IF x.result.user.kind = Absent THEN "no"
    ELSE IF x.result.user.kind = Null THEN "raise"
    ELSE IF x.result.user.token = Absent THEN "no"
    ELSE "yes"

\* mutant: the timestamps are subtracted without .date(); timedelta.days is
\* the floor of the difference in days
DateDiffDays_Timestamps(a, b) ==
    ((2 * a.day + a.late) - (2 * b.day + b.late)) \div 2

\* (a.date() - b.date()).days
DateDiffDays(a, b) == a.day - b.day

\* Lines 265-268 with plus_paidUntil as lines 239-256 leave it: None unless
\* the account object carries a paidUntil that parses.
LongExpired(account, clock) ==
    /\ account.kind = "object"
    /\ account.paidUntil.kind = "date"
    /\ DateDiffDays(account.paidUntil, clock) < (- expired_subscription_max_days)

\* Lines 275-280 and 304-309: forward the server's error, clear, return False.
AuthRejected(c, kr, x, deleteFails) ==
    LET cl == clearCredentials(c, kr, TRUE, deleteFails)
    IN [config |-> cl.config, keyring |-> cl.keyring,
        msgs |-> IF x.error # Absent THEN <<x.error>> ELSE <<>>,
        ret |-> IF cl.raised THEN "error" ELSE "False"]

\* mutant: the handler re-raises without clearing, as the one of line 311 does
AuthFailed_NoClear(c, kr, deleteFails) ==
    [config |-> c, keyring |-> kr, msgs |-> <<>>, ret |-> "error"]

\* Lines 314-317: an unexpected exception clears the credentials and is raised.
AuthFailed(c, kr, deleteFails) ==
    LET cl == clearCredentials(c, kr, TRUE, deleteFails)
    IN [config |-> cl.config, keyring |-> cl.keyring, msgs |-> <<>>,
        ret |-> "error"]

\* Lines 221-309: interpretation of the reply x of the login request.
\* setAccountFails: account.setAccount raises.
AuthInterpret(c, kr, x, clock, setAccountFails, deleteFails) ==
    LET shape == SuccessShape(x)
        user == x.result.user
        acc == user.account
        nick == extractUserInfo(user.nickname, None)
        st == setToken(c, user.token, nick)
    IN IF shape = "raise" THEN AuthFailed(c, kr, deleteFails)
       ELSE IF shape = "no" THEN AuthRejected(c, kr, x, deleteFails)
       ELSE IF acc.kind = Null THEN AuthFailed(c, kr, deleteFails)
       ELSE IF acc.kind = "object" /\ acc.limit = Null
            THEN AuthFailed(c, kr, deleteFails)
       ELSE IF LongExpired(acc, clock) THEN AuthRejected(c, kr, x, deleteFails)
       ELSE IF st.raised THEN AuthFailed(st.config, kr, deleteFails)
       ELSE IF acc.kind = "object" /\ acc.id # Absent
            THEN IF setAccountFails
                 THEN AuthFailed(st.config, kr, deleteFails)
                 ELSE [config |-> [st.config EXCEPT !.account_nr = acc.id],
                       keyring |-> kr, msgs |-> <<>>, ret |-> "True"]
       ELSE [config |-> st.config, keyring |-> kr, msgs |-> <<>>,
             ret |-> "True"]

-----------------------------------------------------------------------------
(* Request dispatcher: lines 345-443 *)

Unset == "<unset>"
IdleThread == [pc |-> "idle", op |-> "none", token |-> None, nickname |-> None,
               remove |-> FALSE, avail |-> 1, val |-> None, raised |-> FALSE,
               rtok |-> Unset, rnick |-> Unset]

\* the operation the caller is in, with the arguments of postData
Call(op, authorized, compress, jsondata) ==
    [op |-> op, authorized |-> authorized, compress |-> compress,
     jsondata |-> jsondata]
NoCall == Call("none", FALSE, FALSE, <<>>)

\* mutant: the token is sent whatever `authorized` says
getHeaders_IgnoresAuthorized(c, authorized, decompress) ==
    Headers(IF getToken(c) # None THEN getToken(c) ELSE Absent,
            decompress, FALSE, FALSE)

\* getHeaders(authorized, decompress), lines 320-342 (user-agent and
\* Accept-Language are set whatever the arguments and are left out).
\* Line 323 dereferences config.app_window: getHeaders raises when the
\* application window is not bound, see HeadersRaise.
getHeaders(c, authorized, decompress) ==
    Headers(IF authorized /\ getToken(c) # None THEN getToken(c) ELSE Absent,
            decompress, FALSE, FALSE)

\* mutant: a payload whose size is the threshold is compressed too
getHeadersAndData_AtThreshold(c, authorized, compress, jsondata) ==
    LET h == getHeaders(c, authorized, compress)
        gz == compress /\ Len(jsondata) >= post_compression_threshold
    IN Request(authorized,
               [h EXCEPT !.ContentType = TRUE, !.ContentEncoding = gz],
               IF gz THEN gzip_compress(jsondata) ELSE jsondata)

\* mutant: Accept-Encoding is set whatever `compress` says
getHeadersAndData_AcceptsAlways(c, authorized, compress, jsondata) ==
    LET h == getHeaders(c, authorized, TRUE)
        gz == compress /\ Len(jsondata) > post_compression_threshold
    IN Request(authorized,
               [h EXCEPT !.ContentType = TRUE, !.ContentEncoding = gz],
               IF gz THEN gzip_compress(jsondata) ELSE jsondata)

\* getHeadersAndData(authorized, compress, jsondata), lines 356-365
getHeadersAndData(c, authorized, compress, jsondata) ==
    LET h == getHeaders(c, authorized, compress)
        gz == compress /\ Len(jsondata) > post_compression_threshold
    IN Request(authorized,
               [h EXCEPT !.ContentType = TRUE, !.ContentEncoding = gz],
               IF gz THEN gzip_compress(jsondata) ELSE jsondata)

\* the request of the running getData (line 408, 426) or postData (line 378,
\* 392) built from session c
BuildRequest(c, cl) ==
    IF cl.op = "getData"
    THEN Request(cl.authorized, getHeaders(c, cl.authorized, TRUE), <<>>)
    ELSE getHeadersAndData(c, cl.authorized, cl.compress, cl.jsondata)

\* the token read by getHeaders is read under the semaphore (lines 335, 55)
HeaderAccesses(authorized) ==
    IF authorized THEN {Access("token", token_semaphore - 1 < 1)} ELSE {}

\* line 323, config.app_window.get_os(): AttributeError without a window
HeadersRaise(c) == ~c.app_window

\* A request operation begins: its first request is built (lines 378, 408)
\* and the call goes on to the first send, or getHeaders raises and the
\* call ends before anything is sent.
FirstRequest(c, cl) ==
    IF HeadersRaise(c)
    THEN [next |-> "done", ret |-> Returned("error", NoReply),
          request |-> NoRequest,
          accesses |-> {}]
    ELSE [next |-> "send1", ret |-> Running,
          request |-> BuildRequest(c, cl),
          accesses |-> HeaderAccesses(cl.authorized)]

Init ==
    /\ config \in [app_window : BOOLEAN, plus_account : {None},
                   passwd : {None}, token : {None}, nickname : {None},
                   account_nr : {None}]
    /\ token_semaphore = 1
    /\ keyring \in {None, "pw"}
    /\ messages = <<>>
    /\ pc = "done"
    /\ call = NoCall
    /\ sends = 0
    /\ logins = 0
    /\ authCalls = 0
    /\ replies = <<>>
    /\ ret = Running
    /\ res = NoRes(Absent)
    /\ now = Timestamp(Today, 0)
    /\ authret = "none"
    /\ fetched = Unset
    /\ request = NoRequest
    /\ sent = <<>>
    /\ limits = Absent
    /\ accesses = {}
    /\ th = [t \in Threads |-> IdleThread]

\* A caller enters an operation: the bookkeeping of the previous call is reset.
Enter(c, next, returned, req, acc) ==
    /\ pc = "done"
    /\ pc' = next
    /\ call' = c
    /\ sends' = 0
    /\ logins' = 0
    /\ authCalls' = IF c.op = "authentify" THEN 1 ELSE 0
    /\ replies' = <<>>
    /\ ret' = returned
    /\ res' = NoRes(Absent)
    /\ authret' = "none"
    /\ messages' = <<>>
    /\ now' = Timestamp(Today, 0)
    /\ fetched' = Unset
    /\ request' = req
    /\ sent' = <<>>
    /\ c.op # "updateLimits" => limits' = Absent
    /\ accesses' = acc
    /\ UNCHANGED th

\* The application's login dialog sets the account and the password (both are
\* inputs of authentify, lines 183-187) and may store the password.
Connect ==
    /\ config.app_window
    /\ \E pw \in {None, "pw"} :
         config' = [config EXCEPT !.plus_account = "acct", !.passwd = pw]
    /\ keyring' \in {keyring, "pw"}
    /\ Enter(Call("connect", FALSE, FALSE, <<>>), "done",
             Returned("None", NoReply), NoRequest, {})
    /\ UNCHANGED token_semaphore

\* setToken(token, nickname) called by the application, lines 77-91
CallSetToken ==
    /\ \E t \in {"t1"}, n \in Nicknames \cup {None} :
         LET st == setToken(config, t, n)
         IN /\ config' = st.config
            /\ Enter(Call("setToken", FALSE, FALSE, <<>>), "done",
                     Returned(IF st.raised THEN "error" ELSE "None", NoReply),
                     NoRequest,
                     {Access(f, token_semaphore - 1 < 1) :
                         f \in {"token", "nickname"}})
    /\ token_semaphore' = Release(token_semaphore - 1, token_semaphore - 1)
    /\ UNCHANGED keyring

\* the session fields clearCredentials has written when it ends, lines 123-127
ClearedFields(c) ==
    IF c.app_window THEN {"token", "passwd", "nickname", "account_nr"}
    ELSE {"token"}

\* clearCredentials(remove_from_keychain) called by the application, lines 94-130
CallClearCredentials ==
    /\ \E remove \in BOOLEAN, deleteFails \in BOOLEAN :
         LET cl == clearCredentials(config, keyring, remove, deleteFails)
         IN /\ config' = cl.config
            /\ keyring' = cl.keyring
            /\ Enter(Call("clearCredentials", FALSE, FALSE, <<>>), "done",
                     Returned(IF cl.raised THEN "error" ELSE "None", NoReply),
                     NoRequest,
                     {Access(f, token_semaphore - 1 < 1) :
                         f \in ClearedFields(config)})
    /\ token_semaphore' = Release(token_semaphore - 1, token_semaphore - 1)

\* authentify() called by the application, line 178
CallAuthentify ==
    /\ Enter(Call("authentify", FALSE, FALSE, <<>>), "auth", Running,
             NoRequest, {})
    /\ UNCHANGED <<config, token_semaphore, keyring>>

\* getData(url, authorized), lines 406-410
GetData ==
    /\ \E a \in BOOLEAN :
         LET c == Call("getData", a, FALSE, <<>>)
             f == FirstRequest(config, c)
         IN Enter(c, f.next, f.ret, f.request, f.accesses)
    /\ UNCHANGED <<config, token_semaphore, keyring>>

\* postData(url, data, authorized, compress), lines 368-379
PostData ==
    /\ \E a \in BOOLEAN, compress \in BOOLEAN, jsondata \in Payloads :
         LET c == Call("postData", a, compress, jsondata)
             f == FirstRequest(config, c)
         IN Enter(c, f.next, f.ret, f.request, f.accesses)
    /\ UNCHANGED <<config, token_semaphore, keyring>>

\* putData, lines 352-353: drops its arguments and returns None
putData == Returned("None", NoReply)

\* sendData(url, data, verb), lines 345-348
SendData ==
    /\ \E verb \in {"POST", "PUT"}, jsondata \in Payloads :
         IF verb = "POST"
         THEN LET c == Call("postData", TRUE, compress_posts, jsondata)
                  f == FirstRequest(config, c)
              IN Enter(c, f.next, f.ret, f.request, f.accesses)
         ELSE Enter(Call("putData", TRUE, FALSE, jsondata), "done", putData,
                    NoRequest, {})
    /\ UNCHANGED <<config, token_semaphore, keyring>>

\* Lines 170-173 and 260-263, `"rlimit" in ol and "rused" in ol` and the
\* emit, for an ol that is null ("raise": `in` applied to None), an object
\* without rlimit or rused ("skip") or a complete object ("emit")
ExtractLimits(ol) ==
    IF ol = Null THEN "raise" ELSE IF ol = "object" THEN "emit" ELSE "skip"

\* updateLimits(res), lines 166-175: the extraction runs when the window is
\* bound and the reply has an "ol"; what it raises is logged and swallowed
\* by the handler of line 174.
updateLimits(c, ol) ==
    LET did == IF c.app_window /\ ol # Absent THEN ExtractLimits(ol)
               ELSE "skip"
    IN [emitted |-> did = "emit", raised |-> FALSE]

\* updateLimits(res) called by the application with a server reply
CallUpdateLimits ==
    /\ \E ol \in {Absent, Null, "partial", "object"} :
         LET u == updateLimits(config, ol)
         IN /\ Enter(Call("updateLimits", FALSE, FALSE, <<>>), "done",
                     Returned(IF u.raised THEN "error" ELSE "None", NoReply),
                     NoRequest, {})
            /\ limits' = IF u.emitted THEN "emitted" ELSE Absent
    /\ UNCHANGED <<config, token_semaphore, keyring>>

\* The test of lines 388 and 420: re-authenticate and try again
Reauthenticate(authorized, status) == authorized /\ status = 401

\* The first requests.get / requests.post and the test that follows it:
\* lines 380-388 and 411-420.  A transport error leaves the function.
Send1 ==
    /\ pc = "send1"
    /\ sends' = sends + 1
    /\ sent' = Append(sent, request)
    /\ \/ /\ pc' = "done"
          /\ ret' = Returned("transport", NoReply)
          /\ UNCHANGED <<replies, authCalls>>
       \/ \E status \in Statuses :
            /\ replies' = Append(replies, status)
            /\ IF Reauthenticate(call.authorized, status)
               THEN /\ pc' = "auth"
                    /\ authCalls' = authCalls + 1
                    /\ UNCHANGED ret
               ELSE /\ pc' = "done"
                    /\ ret' = Returned("response", Reply(status, sends'))
                    /\ UNCHANGED authCalls
    /\ UNCHANGED <<config, token_semaphore, keyring, messages, call, logins,
                   res, now, authret, fetched, th, request, limits, accesses>>

\* mutant: getData resends only after a successful authentify, as postData does
AfterAuth_ResendOnSuccess(outcome, acc) ==
    /\ authret' = outcome
    /\ IF call.op = "authentify" \/ outcome \in {"transport", "error"}
       THEN /\ pc' = "done"
            /\ ret' = Returned(outcome, NoReply)
            /\ accesses' = accesses \cup acc
            /\ UNCHANGED request
       ELSE IF outcome = "True"
       THEN /\ pc' = "send2"
            /\ request' = BuildRequest(config', call)
            /\ accesses' = accesses \cup acc \cup HeaderAccesses(call.authorized)
            /\ UNCHANGED ret
       ELSE /\ pc' = "done"
            /\ ret' = Returned("response", Reply(replies[1], 1))
            /\ accesses' = accesses \cup acc
            /\ UNCHANGED request

\* mutant: the second send reuses the headers of the first (lines 392 and
\* 426 are missing)
AfterAuth_KeepsHeaders(outcome, acc) ==
    /\ authret' = outcome
    /\ IF call.op = "authentify" \/ outcome \in {"transport", "error"}
       THEN /\ pc' = "done"
            /\ ret' = Returned(outcome, NoReply)
            /\ accesses' = accesses \cup acc
            /\ UNCHANGED request
       ELSE IF call.op = "getData" \/ outcome = "True"
       THEN /\ pc' = "send2"
            /\ request' = sent[1]
            /\ accesses' = accesses \cup acc
            /\ UNCHANGED ret
       ELSE /\ pc' = "done"
            /\ ret' = Returned("response", Reply(replies[1], 1))
            /\ accesses' = accesses \cup acc
            /\ UNCHANGED request

\* What the caller of authentify does with its outcome: the application gets
\* it (line 178); getData rebuilds the headers and resends whatever was
\* returned (lines 425-432); postData does so when it was True and returns
\* the first reply otherwise (lines 391-403); an exception leaves either of
\* them.  `acc` are the session accesses of the step that ends authentify.
AfterAuth(outcome, acc) ==
    /\ authret' = outcome
    /\ IF call.op = "authentify" \/ outcome \in {"transport", "error"}
       THEN /\ pc' = "done"
            /\ ret' = Returned(outcome, NoReply)
            /\ accesses' = accesses \cup acc
            /\ UNCHANGED request
       ELSE IF call.op = "getData" \/ outcome = "True"
       THEN /\ pc' = "send2"
            /\ request' = BuildRequest(config', call)
            /\ accesses' = accesses \cup acc \cup HeaderAccesses(call.authorized)
            /\ UNCHANGED ret
       ELSE /\ pc' = "done"
            /\ ret' = Returned("response", Reply(replies[1], 1))
            /\ accesses' = accesses \cup acc
            /\ UNCHANGED request

\* the request of line 215, postData(config.auth_url, data, False), as lines
\* 376-378 build it
LoginRequest(c) == getHeadersAndData(c, FALSE, compress_posts, LoginData)

\* mutant: without an account the credentials are cleared as on a failed login
AuthBegin_ClearsWithoutAccount ==
    /\ pc = "auth"
    /\ IF ~(config.app_window /\ config.plus_account # None)
       THEN /\ config' = clearCredentials(config, keyring, TRUE, FALSE).config
            /\ UNCHANGED <<keyring, fetched>>
            /\ AfterAuth("False", {})
       ELSE IF config.passwd # None
       THEN /\ pc' = "login"
            /\ request' = LoginRequest(config)
            /\ accesses' = accesses \cup {Access("passwd", token_semaphore < 1)}
            /\ UNCHANGED <<config, keyring, fetched, ret, authret>>
       ELSE \E got \in {keyring, "raise"}, deleteFails \in BOOLEAN :
              LET pw == IF got = "raise" THEN None ELSE got
                  c1 == [config EXCEPT !.passwd = pw]
                  cl == clearCredentials(c1, keyring, TRUE, deleteFails)
              IN /\ fetched' = got
                 /\ IF pw = None
                    THEN /\ config' = cl.config
                         /\ keyring' = cl.keyring
                         /\ AfterAuth(IF cl.raised THEN "error" ELSE "False",
                                      {Access("passwd", token_semaphore < 1)})
                    ELSE /\ config' = c1
                         /\ pc' = "login"
                         /\ request' = LoginRequest(c1)
                         /\ accesses' = accesses
                               \cup {Access("passwd", token_semaphore < 1)}
                         /\ UNCHANGED <<keyring, ret, authret>>
    /\ UNCHANGED <<token_semaphore, messages, call, sends, logins, authCalls,
                   replies, res, now, th, sent, limits>>

\* authentify, lines 181-214: the account test, the password fetched from the
\* keychain when none is cached (a failing read is logged and swallowed),
\* and the early return when there is still none.  `fetched` keeps what
\* keyring.get_password gave: the secret, None, or "raise".  config.passwd
\* is read (lines 187, 203, 213) and written (line 198) with the semaphore
\* as it stands: authentify does not acquire it.
AuthBegin ==
    /\ pc = "auth"
    /\ IF ~(config.app_window /\ config.plus_account # None)
       THEN /\ UNCHANGED <<config, keyring, fetched>>
            /\ AfterAuth("False", {})
       ELSE IF config.passwd # None
       THEN /\ pc' = "login"
            /\ request' = LoginRequest(config)
            /\ accesses' = accesses \cup {Access("passwd", token_semaphore < 1)}
            /\ UNCHANGED <<config, keyring, fetched, ret, authret>>
       ELSE \E got \in {keyring, "raise"}, deleteFails \in BOOLEAN :
              LET pw == IF got = "raise" THEN None ELSE got
                  c1 == [config EXCEPT !.passwd = pw]
                  cl == clearCredentials(c1, keyring, TRUE, deleteFails)
              IN /\ fetched' = got
                 /\ IF pw = None
                    THEN /\ config' = cl.config
                         /\ keyring' = cl.keyring
                         /\ AfterAuth(IF cl.raised THEN "error" ELSE "False",
                                      {Access("passwd", token_semaphore < 1)})
                    ELSE /\ config' = c1
                         /\ pc' = "login"
                         /\ request' = LoginRequest(c1)
                         /\ accesses' = accesses
                               \cup {Access("passwd", token_semaphore < 1)}
                         /\ UNCHANGED <<keyring, ret, authret>>
    /\ UNCHANGED <<token_semaphore, messages, call, sends, logins, authCalls,
                   replies, res, now, th, sent, limits>>

\* mutant: a transport error clears the credentials before it is re-raised
AuthPost_ClearsOnTransport ==
    /\ pc = "login"
    /\ logins' = logins + 1
    /\ \/ /\ config' = clearCredentials(config, keyring, TRUE, FALSE).config
          /\ AfterAuth("transport", {})
          /\ UNCHANGED <<res, authCalls>>
       \/ \E status \in Statuses, x \in Responses :
            /\ res' = x
            /\ pc' = "interpret"
            /\ UNCHANGED <<config, ret, authret, authCalls, request, accesses>>
    /\ UNCHANGED <<token_semaphore, keyring, messages, call, sends,
                   replies, now, fetched, th, sent, limits>>

\* authentify, line 215: postData(config.auth_url, data, False) and the
\* handler of lines 311-313, which re-raises a transport error.  postData
\* applies the test of line 388 with authorized = False to the reply; were it
\* to hold, authentify would be entered again from within itself.
AuthPost ==
    /\ pc = "login"
    /\ logins' = logins + 1
    /\ UNCHANGED config
    /\ \/ /\ AfterAuth("transport", {})
          /\ UNCHANGED <<res, authCalls>>
       \/ \E status \in Statuses, x \in Responses :
            IF Reauthenticate(FALSE, status)
            THEN /\ authCalls' = authCalls + 1
                 /\ pc' = "auth"
                 /\ UNCHANGED <<res, ret, authret, request, accesses>>
            ELSE /\ res' = x
                 /\ pc' = "interpret"
                 /\ UNCHANGED <<ret, authret, authCalls, request, accesses>>
    /\ UNCHANGED <<token_semaphore, keyring, messages, call, sends,
                   replies, now, fetched, th, sent, limits>>

\* Lines 258-263: the limits signal is emitted when the account payload has a
\* limit object with rlimit and rused (a limit that is no object has raised)
AuthLimits(x) ==
    /\ SuccessShape(x) = "yes"
    /\ x.result.user.account.kind = "object"
    /\ x.result.user.account.limit = "object"

\* the session accesses of lines 221-317 that yield outcome a: setToken and
\* clearCredentials write under the semaphore, line 298 writes
\* config.account_nr with the semaphore as it stands
ReplyAccesses(c, x, a) ==
    (IF a.ret = "True" \/ a.config.token # c.token \/ a.config.token = None
     THEN {Access(f, token_semaphore - 1 < 1) : f \in {"token", "nickname"}}
     ELSE {})
    \cup (IF a.ret # "True"
          THEN {Access(f, token_semaphore - 1 < 1) :
                   f \in {"passwd", "account_nr"}}
          ELSE {})
    \cup (IF a.ret = "True" /\ x.result.user.account.id # Absent
          THEN {Access("account_nr", token_semaphore < 1)}
          ELSE {})

\* datetime.now() of line 267 is reached when the reply has a paidUntil that
\* parsed and nothing raised before
ReadsClock(x) ==
    /\ SuccessShape(x) = "yes"
    /\ x.result.user.account.kind = "object"
    /\ x.result.user.account.paidUntil.kind = "date"
    /\ x.result.user.account.limit # Null

\* authentify, lines 221-317
AuthReply ==
    /\ pc = "interpret"
    /\ \E clock \in Clock, setAccountFails \in BOOLEAN, deleteFails \in BOOLEAN :
         LET a == AuthInterpret(config, keyring, res, clock, setAccountFails,
                                deleteFails)
         IN /\ now' = IF ReadsClock(res) THEN clock ELSE now
            /\ config' = a.config
            /\ keyring' = a.keyring
            /\ messages' = messages \o a.msgs
            /\ AfterAuth(a.ret, ReplyAccesses(config, res, a))
    /\ limits' = IF AuthLimits(res) THEN "emitted" ELSE limits
    /\ token_semaphore' = Release(token_semaphore - 1, token_semaphore - 1)
    /\ UNCHANGED <<call, sends, logins, authCalls, replies, res, fetched, th,
                   sent>>

\* The second requests.get / requests.post: lines 395-403 and 426-443.
Send2 ==
    /\ pc = "send2"
    /\ sends' = sends + 1
    /\ sent' = Append(sent, request)
    /\ pc' = "done"
    /\ \/ /\ ret' = Returned("transport", NoReply)
          /\ UNCHANGED replies
       \/ \E status \in Statuses :
            /\ replies' = Append(replies, status)
            /\ ret' = Returned("response", Reply(status, sends'))
    /\ UNCHANGED <<config, token_semaphore, keyring, messages, call, logins,
                   authCalls, res, now, authret, fetched, th, request, limits,
                   accesses>>

Next ==
    \/ Connect
    \/ CallSetToken
    \/ CallClearCredentials
    \/ CallAuthentify
    \/ GetData
    \/ PostData
    \/ SendData
    \/ CallUpdateLimits
    \/ Send1
    \/ AuthBegin
    \/ AuthPost
    \/ AuthReply
    \/ Send2

Spec == Init /\ [][Next]_vars

-----------------------------------------------------------------------------
(* The session operations of lines 53-130, statement by statement, run by  *)
(* several threads.                                                        *)

Goto(t, next) == th' = [th EXCEPT ![t].pc = next]

\* a thread calls getToken(); the pair it builds starts with this token
ThGetToken(t) ==
    /\ th[t].pc = "idle"
    /\ th' = [th EXCEPT ![t] = [IdleThread EXCEPT !.pc = "acquire",
                                                  !.op = "getToken"]]
    /\ UNCHANGED <<config, token_semaphore, keyring, seqvars>>

\* a thread calls getNickname(); a token it got just before stays in hand
ThGetNickname(t) ==
    /\ th[t].pc = "idle"
    /\ th' = [th EXCEPT ![t] = [IdleThread EXCEPT !.pc = "acquire",
                                                  !.op = "getNickname",
                                                  !.rtok = th[t].rtok]]
    /\ UNCHANGED <<config, token_semaphore, keyring, seqvars>>

\* a thread calls setToken(token, nickname)
ThSetToken(t) ==
    /\ th[t].pc = "idle"
    /\ \E tok \in Tokens :
         th' = [th EXCEPT ![t] = [IdleThread EXCEPT !.pc = "acquire",
                                                    !.op = "setToken",
                                                    !.token = tok,
                                                    !.nickname = NickOf(tok)]]
    /\ UNCHANGED <<config, token_semaphore, keyring, seqvars>>

\* a thread calls clearCredentials(remove_from_keychain)
ThClearCredentials(t) ==
    /\ th[t].pc = "idle"
    /\ \E remove \in BOOLEAN :
         th' = [th EXCEPT ![t] = [IdleThread EXCEPT !.pc = "keychain",
                                                    !.op = "clearCredentials",
                                                    !.remove = remove]]
    /\ UNCHANGED <<config, token_semaphore, keyring, seqvars>>

\* lines 97-120: the keychain entry is deleted before the semaphore is taken
Keychain(t) ==
    /\ th[t].pc = "keychain"
    /\ \E deleteFails \in BOOLEAN :
         keyring' = IF config.app_window /\ config.plus_account # None
                       /\ th[t].remove /\ ~deleteFails
                    THEN None ELSE keyring
    /\ Goto(t, "acquire")
    /\ UNCHANGED <<config, token_semaphore, seqvars>>

\* token_semaphore.acquire(1), lines 55, 67, 79, 122: blocks while the count is 0
Acquire(t) ==
    /\ th[t].pc = "acquire"
    /\ token_semaphore >= 1
    /\ token_semaphore' = token_semaphore - 1
    /\ Goto(t, CASE th[t].op = "getToken" -> "read_token"
                 [] th[t].op = "getNickname" -> "read_nickname"
                 [] th[t].op = "setToken" -> "write_token"
                 [] OTHER -> "clear_token")
    /\ UNCHANGED <<config, keyring, seqvars>>

\* return config.token, line 56
ReadToken(t) ==
    /\ th[t].pc = "read_token"
    /\ th' = [th EXCEPT ![t].val = getToken(config), ![t].pc = "available"]
    /\ UNCHANGED <<config, token_semaphore, keyring, seqvars>>

\* return config.nickname, line 68
ReadNickname(t) ==
    /\ th[t].pc = "read_nickname"
    /\ th' = [th EXCEPT ![t].val = getNickname(config), ![t].pc = "available"]
    /\ UNCHANGED <<config, token_semaphore, keyring, seqvars>>

\* config.token = token, line 80
WriteToken(t) ==
    /\ th[t].pc = "write_token"
    /\ config' = [config EXCEPT !.token = th[t].token]
    /\ Goto(t, "write_nickname")
    /\ UNCHANGED <<token_semaphore, keyring, seqvars>>

\* config.nickname = nickname, line 81, and the operator test of lines 82-88,
\* which raises when config.app_window is None
WriteNickname(t) ==
    /\ th[t].pc = "write_nickname"
    /\ config' = [config EXCEPT !.nickname = th[t].nickname]
    /\ th' = [th EXCEPT ![t].raised = ~config.app_window,
                        ![t].pc = "available"]
    /\ UNCHANGED <<token_semaphore, keyring, seqvars>>

\* config.token = None, line 123
ClearToken(t) ==
    /\ th[t].pc = "clear_token"
    /\ config' = [config EXCEPT !.token = None]
    /\ Goto(t, "clear_account")
    /\ UNCHANGED <<token_semaphore, keyring, seqvars>>

\* mutant: the exception of line 124 leaves clearCredentials without the
\* finally clause of lines 128-130
ClearAccount_SkipsFinally(t) ==
    /\ th[t].pc = "clear_account"
    /\ IF config.app_window
       THEN /\ config' = [config EXCEPT !.plus_account = None]
            /\ Goto(t, "clear_rest")
       ELSE /\ th' = [th EXCEPT ![t] = [IdleThread EXCEPT !.raised = TRUE]]
            /\ UNCHANGED config
    /\ UNCHANGED <<token_semaphore, keyring, seqvars>>

\* config.app_window.plus_account = None, line 124: raises when
\* config.app_window is None, and the finally clause runs next
ClearAccount(t) ==
    /\ th[t].pc = "clear_account"
    /\ IF config.app_window
       THEN /\ config' = [config EXCEPT !.plus_account = None]
            /\ Goto(t, "clear_rest")
       ELSE /\ th' = [th EXCEPT ![t].raised = TRUE, ![t].pc = "available"]
            /\ UNCHANGED config
    /\ UNCHANGED <<token_semaphore, keyring, seqvars>>

\* config.passwd, config.nickname, config.account_nr = None, lines 125-127
ClearRest(t) ==
    /\ th[t].pc = "clear_rest"
    /\ config' = [config EXCEPT !.passwd = None, !.nickname = None,
                                !.account_nr = None]
    /\ Goto(t, "available")
    /\ UNCHANGED <<token_semaphore, keyring, seqvars>>

\* finally: token_semaphore.available(), lines 61, 73, 90, 129
Available(t) ==
    /\ th[t].pc = "available"
    /\ th' = [th EXCEPT ![t].avail = token_semaphore, ![t].pc = "release"]
    /\ UNCHANGED <<config, token_semaphore, keyring, seqvars>>

\* finally: release(1) when available() was below 1, lines 62, 74, 91, 130;
\* the function then returns (or the exception leaves it): its locals are
\* gone, the caller has what was returned and whether it raised
ReleaseAndReturn(t) ==
    /\ th[t].pc = "release"
    /\ token_semaphore' = Release(th[t].avail, token_semaphore)
    /\ th' = [th EXCEPT ![t] = [IdleThread EXCEPT
                        !.raised = th[t].raised,
                        !.rtok = IF th[t].op = "getToken"
                                 THEN th[t].val ELSE th[t].rtok,
                        !.rnick = IF th[t].op = "getNickname"
                                  THEN th[t].val ELSE th[t].rnick]]
    /\ UNCHANGED <<config, keyring, seqvars>>

InitConc ==
    /\ \E w \in BOOLEAN, a \in {None, "acct"} :
         config = [app_window |-> w,
                   plus_account |-> IF w THEN a ELSE None,
                   passwd |-> IF w /\ a # None THEN "pw" ELSE None,
                   token |-> None, nickname |-> None, account_nr |-> None]
    /\ token_semaphore = 1
    /\ keyring = (IF config.plus_account # None THEN "pw" ELSE None)
    /\ messages = <<>>
    /\ pc = "done"
    /\ call = NoCall
    /\ sends = 0
    /\ logins = 0
    /\ authCalls = 0
    /\ replies = <<>>
    /\ ret = Running
    /\ res = NoRes(Absent)
    /\ now = Timestamp(Today, 0)
    /\ authret = "none"
    /\ fetched = Unset
    /\ request = NoRequest
    /\ sent = <<>>
    /\ limits = Absent
    /\ accesses = {}
    /\ th = [t \in Threads |-> IdleThread]

NextConc ==
    \E t \in Threads :
          \/ ThGetToken(t)
          \/ ThGetNickname(t)
          \/ ThSetToken(t)
          \/ ThClearCredentials(t)
          \/ Keychain(t)
          \/ Acquire(t)
          \/ ReadToken(t)
          \/ ReadNickname(t)
          \/ WriteToken(t)
          \/ WriteNickname(t)
          \/ ClearToken(t)
          \/ ClearAccount(t)
          \/ ClearRest(t)
          \/ Available(t)
          \/ ReleaseAndReturn(t)

SpecConc == InitConc /\ [][NextConc]_vars

-----------------------------------------------------------------------------
(* Properties *)

DispatchDone(op) == pc = "done" /\ call.op = op
First401 == call.authorized /\ replies # <<>> /\ replies[1] = 401
AuthReturned == authret \in {"True", "False"}

\* C1: an authorized postData whose first reply is a 401 calls authentify once
\* and, whether it returned True or False, sends the request a second time
\* exactly once; the reply that is returned is the one of the second attempt.
C1_SubmitResendsWhateverAuthReturned ==
    (DispatchDone("postData") /\ First401 /\ AuthReturned)
        => /\ authCalls = 1
           /\ sends = 2
           /\ ret.kind = "response" => ret.reply.attempt = 2

\* C2: an authorized getData whose first reply is a 401 calls authentify once
\* and resends once whatever authentify returned; the second reply is returned
\* as it is, also when it is a 401; a getData never sends the target request
\* more than twice and never calls authentify more than once.
C2_FetchResendsOnceAfter401 ==
    /\ call.op = "getData" => sends <= 2 /\ authCalls <= 1 /\ logins <= 1
    /\ (call.op = "getData" /\ pc = "send2") => sends = 1 /\ authCalls = 1
    /\ (DispatchDone("getData") /\ First401 /\ AuthReturned)
          => /\ authCalls = 1
             /\ sends = 2
             /\ ret.kind \in {"response", "transport"}
             /\ ret.kind = "response"
                   => /\ Len(replies) = 2
                      /\ ret.reply = Reply(replies[2], 2)

C2_Witness ==
    /\ DispatchDone("getData")
    /\ replies = <<401, 401>>
    /\ authret = "False"
    /\ ret = Returned("response", Reply(401, 2))

\* C3: a getData or postData that is not authorized, or whose first reply is
\* no 401, or whose first send fails with a transport error, sends once and
\* never calls authentify; the transport error reaches the caller.  The login
\* request of authentify is such an unauthorized postData: it is sent once
\* and never starts another authentify.  (Without an application window
\* getHeaders raises at line 323 before the first send: nothing is sent.)
C3_OnlyAuthorized401Reauthenticates ==
    /\ (call.op \in {"getData", "postData"} /\ pc = "done" /\ ~First401)
          => /\ sends = 1
             /\ authCalls = 0
             /\ logins = 0
             /\ authret = "none"
             /\ IF replies = <<>>
                THEN ret = Returned("transport", NoReply)
                ELSE ret = Returned("response", Reply(replies[1], 1))
    /\ authCalls <= 1
    /\ logins <= authCalls
    /\ authCalls = 1 => call.op = "authentify" \/ First401

\* C4: whatever the interleaving of setToken, clearCredentials, getToken and
\* getNickname, the token and the nickname a caller has obtained were stored
\* by one and the same write.
FromOneWrite(token, nickname) ==
    \/ token = None /\ nickname = None
    \/ token \in Tokens /\ nickname = NickOf(token)

C4_PairFromOneWrite ==
    \A t \in Threads :
       (th[t].rtok # Unset /\ th[t].rnick # Unset)
           => FromOneWrite(th[t].rtok, th[t].rnick)

SessionEmpty ==
    /\ config.token = None
    /\ config.nickname = None
    /\ config.passwd = None
    /\ config.account_nr = None
    /\ config.plus_account = None

\* C5: authentify with an account configured, no cached password and none to
\* be had from the keychain (no entry, or the read fails) returns False
\* without raising, sends nothing, and leaves the session empty.
C5_NoPasswordReturnsFalse ==
    fetched \in {None, "raise"}
        => /\ authret = "False"
           /\ logins = 0
           /\ res = NoRes(Absent)
           /\ SessionEmpty
           /\ call.op = "authentify" => ret = Returned("False", NoReply)

C5_Witness ==
    /\ fetched = "raise"
    /\ keyring = "pw"
    /\ call.op = "authentify"
    /\ authret = "False"

\* the reply is a JSON object that lacks the success flag, or has it false, or
\* has no result.user.token
LacksSuccessShape(x) ==
    /\ x.kind = "object"
    /\ \/ x.success # "true"
       \/ x.result.kind = Absent
       \/ /\ x.result.kind = "object"
          /\ \/ x.result.user.kind = Absent
             \/ x.result.user.kind = "object" /\ x.result.user.token = Absent

HasSuccessShape(x) ==
    /\ x.kind = "object"
    /\ x.success = "true"
    /\ x.result.kind = "object"
    /\ x.result.user.kind = "object"
    /\ x.result.user.token # Absent

\* C6: when the reply to the login lacks the success shape, authentify
\* returns False, the session is cleared (no token is stored), and the
\* server's error string, when there is one, is forwarded unchanged once.
C6_RejectedLoginClears ==
    (authret # "none" /\ LacksSuccessShape(res))
        => /\ authret = "False"
           /\ SessionEmpty
           /\ messages = IF res.error # Absent THEN <<res.error>> ELSE <<>>

C6_Witness ==
    /\ authret = "False"
    /\ res.kind = "object"
    /\ res.success = "false"
    /\ res.result.kind = "object"
    /\ res.result.user.kind = "object"
    /\ res.result.user.token = "t2"
    /\ res.error = "e1"
    /\ messages = <<"e1">>
    /\ config.token = None

C8_TransportErrorClearsSession ==
    authret = "transport"
        => ret = Returned("transport", NoReply) /\ SessionEmpty

\* C8 as amended: the transport error reaches the caller and the credentials
\* are not cleared: authentify has changed nothing but the cached password,
\* which it fetched, and the failed request changes nothing at all.
C8_TransportErrorKeepsSession ==
    [][ /\ (pc = "auth" /\ pc' = "login")
           => /\ config'.passwd # None
              /\ config' = [config EXCEPT !.passwd = config'.passwd]
              /\ keyring' = keyring
        /\ (pc = "login" /\ authret' = "transport")
           => /\ config' = config
              /\ keyring' = keyring
              /\ config.passwd # None
              /\ config.plus_account # None
              /\ pc' = "done"
              /\ ret' = Returned("transport", NoReply) ]_vars

C8_Witness ==
    /\ authret = "transport"
    /\ ret = Returned("transport", NoReply)
    /\ call.op = "getData"
    /\ config.token # None
    /\ config.passwd # None

\* a reply on which the interpretation of lines 221-256 raises
Malformed(x) ==
    \/ x.kind = Null
    \/ /\ x.kind = "object"
       /\ x.success = "true"
       /\ \/ x.result.kind = Null
          \/ x.result.kind = "object" /\ x.result.user.kind = Null
          \/ HasSuccessShape(x) /\ x.result.user.account.kind = Null

\* C9: an unexpected exception in authentify that is no transport error (a
\* malformed reply, for one) clears the credentials and reaches the caller:
\* authentify does not return, and the session token is None afterwards.
C9_UnexpectedErrorClearsAndRaises ==
    /\ (authret # "none" /\ Malformed(res)) => authret = "error"
    /\ authret = "error"
          => /\ pc = "done"
             /\ ret = Returned("error", NoReply)
             /\ SessionEmpty

C9_Witness ==
    /\ authret = "error"
    /\ Malformed(res)
    /\ call.op = "postData"

\* C10: the put path of sendData raises a "not implemented" error; it never
\* completes without having sent anything.
C10_PutRaisesNotImplemented ==
    DispatchDone("putData") => ret.kind = "error" \/ sends > 0

\* the Authorization header C11 expects for a request built with `authorized`
\* while the session token is `token`
ExpectedAuthorization(authorized, token) ==
    IF authorized /\ token # None THEN token ELSE Absent

\* C11: a request built with authorized = False carries no Authorization
\* header whatever token the session holds, on the first attempt, on a resend
\* and for the login request of authentify; a request built with
\* authorized = True carries the bearer header of the session token exactly
\* when that token is not None.  (While a request waits to be sent the
\* session is as it was when the headers were built.)
C11_AuthorizationOnlyWhenAuthorized ==
    /\ pc \in {"send1", "send2", "login"}
          => /\ request.headers.Authorization
                   = ExpectedAuthorization(request.authorized, config.token)
             /\ request.authorized = (pc # "login" /\ call.authorized)
    /\ \A i \in 1 .. Len(sent) :
          ~sent[i].authorized => sent[i].headers.Authorization = Absent

C11_Witness ==
    /\ pc = "login"
    /\ call.op = "getData"
    /\ config.token = "t1"
    /\ ~request.authorized
    /\ request.headers.Authorization = Absent

\* the decision C12 expects for a payload
Compressed(compress, jsondata) ==
    compress /\ Len(jsondata) > post_compression_threshold

\* the body and the Content-Encoding header of request r are as C12 expects
BodyAsDecided(r, compress, jsondata) ==
    /\ r.headers.ContentEncoding = Compressed(compress, jsondata)
    /\ IF Compressed(compress, jsondata)
       THEN gzip_decompress(r.data) = jsondata
       ELSE r.data = jsondata

\* C12: the body of a postData is compressed and 'Content-Encoding: gzip' is
\* set if and only if compress is on and the serialized payload is longer
\* than post_compression_threshold; else the body is the serialized bytes and
\* there is no Content-Encoding; a compressed body decompresses to the
\* serialized bytes; the resend after a 401 is decided as the first send was.
C12_CompressedIffAboveThreshold ==
    /\ (call.op = "postData" /\ pc \in {"send1", "send2"})
          => BodyAsDecided(request, call.compress, call.jsondata)
    /\ pc = "login" => BodyAsDecided(request, compress_posts, LoginData)
    /\ call.op = "postData"
          => /\ \A i \in 1 .. Len(sent) :
                   BodyAsDecided(sent[i], call.compress, call.jsondata)
             /\ Len(sent) = 2
                   => /\ sent[2].data = sent[1].data
                      /\ sent[2].headers.ContentEncoding
                            = sent[1].headers.ContentEncoding

C12_Witness ==
    /\ DispatchDone("postData")
    /\ Len(sent) = 2
    /\ Len(call.jsondata) = post_compression_threshold + 1
    /\ sent[2].headers.ContentEncoding
    /\ sent[2].data # call.jsondata
    /\ gzip_decompress(sent[2].data) = call.jsondata

C14_MalformedLimitsSwallowed ==
    LET acc == res.result.user.account
    IN /\ DispatchDone("updateLimits") => ret = Returned("None", NoReply)
       /\ (authret # "none" /\ HasSuccessShape(res) /\ acc.kind = "object"
             /\ acc.id = Absent /\ acc.paidUntil.kind # "date")
            => /\ authret = "True"
               /\ config.token = res.result.user.token

\* C15: when clearCredentials has ended, by return or by exception, token,
\* nickname, cached password and account id are all None and getToken
\* returns None.
C15_ClearLeavesSessionCleared ==
    DispatchDone("clearCredentials")
        => /\ config.token = None
           /\ config.nickname = None
           /\ config.passwd = None
           /\ config.account_nr = None
           /\ getToken(config) = None

\* C16: every read and write of token, nickname, cached password and account
\* id made by the running call, authentify included, happened while the
\* caller held token_semaphore.
C16_SessionAccessesHoldSemaphore ==
    \A a \in accesses :
        a.field \in {"token", "nickname", "passwd", "account_nr"} => a.held

\* thread t is between its acquire and its release of token_semaphore
Holding(t) ==
    th[t].pc \in {"read_token", "read_nickname", "write_token",
                  "write_nickname", "clear_token", "clear_account",
                  "clear_rest", "available", "release"}

\* the next statement of a thread that holds the semaphore can run
CanProceed(t) ==
    ENABLED (\/ ReadToken(t) \/ ReadNickname(t) \/ WriteToken(t)
             \/ WriteNickname(t) \/ ClearToken(t) \/ ClearAccount(t)
             \/ ClearRest(t) \/ Available(t) \/ ReleaseAndReturn(t))

\* C17: when setToken or clearCredentials has been left, by return or by the
\* exception raised inside it (the application window is not bound), the
\* semaphore is not left taken: with no thread inside a guarded section
\* token_semaphore is available, and a thread that waits in acquire either
\* can take it or waits for a thread inside its section whose next statement
\* can run, so it does not wait for a permit nobody will release.
C17_ExceptionReleasesSemaphore ==
    /\ (\A t \in Threads : ~Holding(t)) => token_semaphore = 1
    /\ \A t \in Threads :
          (th[t].pc = "idle" /\ th[t].raised)
              => token_semaphore = 1 \/ \E u \in Threads \ {t} : Holding(u)
    /\ \A t \in Threads :
          th[t].pc = "acquire"
              => \/ ENABLED Acquire(t)
                 \/ \E u \in Threads \ {t} : Holding(u) /\ CanProceed(u)

C17_Witness ==
    /\ ~config.app_window
    /\ th[1].pc = "idle"
    /\ th[1].raised
    /\ th[2].pc = "write_token"
    /\ th[2].op = "setToken"

\* C18: in every interleaving of getToken, getNickname, setToken and
\* clearCredentials at most one thread is between its acquire and its
\* release, the count of token_semaphore is 0 or 1 (1 exactly when no thread
\* is in between), and the release of the finally clause gives back the
\* permit of the thread that runs it: it runs with the count at 0, as
\* available() said, held by that thread.
C18_OneHolderCountZeroOrOne ==
    /\ token_semaphore \in {0, 1}
    /\ Cardinality({t \in Threads : Holding(t)}) = 1 - token_semaphore
    /\ \A t \in Threads :
          th[t].pc = "release" => th[t].avail = 0 /\ token_semaphore = 0

C18_Witness ==
    /\ th[1].pc = "release"
    /\ th[1].op = "setToken"
    /\ th[2].pc = "acquire"
    /\ th[2].op = "clearCredentials"
    /\ token_semaphore = 0

\* authentify has returned False at line 310: no account is configured (or
\* no window is bound), so neither the password step nor the login was reached
ReturnedWithoutAccount ==
    authret = "False" /\ logins = 0 /\ fetched = Unset

\* the request of the second attempt: waiting to be sent, or sent
Resending == pc = "send2" \/ Len(sent) = 2
Resent == IF pc = "send2" THEN request ELSE sent[2]

\* C19: the request resent after a 401 never carries the rejected token: its
\* Authorization header holds the token of the login reply when authentify
\* returned True and is omitted when authentify returned False.
C19_ResendNeverCarriesRejectedToken ==
    Resending
        => /\ authret = "True"
                 => Resent.headers.Authorization = res.result.user.token
           /\ authret = "False" => Resent.headers.Authorization = Absent

\* C19 as amended: the Authorization header of the resent request is built
\* from the session token as authentify left it: the token of the login
\* reply when it returned True; none when it returned False after clearing
\* the credentials; the token of the first attempt, the rejected one, when it
\* returned False because no account is configured, which changes no session
\* field.  Only getData resends after False.
C19_ResendCarriesSessionToken ==
    Resending
        => /\ Resent.headers.Authorization
                 = ExpectedAuthorization(TRUE, config.token)
           /\ authret = "True"
                 => Resent.headers.Authorization = res.result.user.token
           /\ (authret = "False" /\ ~ReturnedWithoutAccount)
                 => Resent.headers.Authorization = Absent
           /\ ReturnedWithoutAccount
                 => /\ call.op = "getData"
                    /\ config.plus_account = None
                    /\ Resent.headers.Authorization
                          = sent[1].headers.Authorization

C19_Witness ==
    /\ DispatchDone("getData")
    /\ Len(sent) = 2
    /\ authret = "False"
    /\ replies[1] = 401
    /\ sent[1].headers.Authorization = "t1"
    /\ sent[2].headers.Authorization = "t1"

\* authentify's guard of lines 182-185 fails in this state
NoAccountConfigured == ~config.app_window \/ config.plus_account = None

\* C20: with no account configured authentify returns False without raising,
\* sends nothing, reads nothing from the keychain and changes no session
\* field; and an authentify that returns False with an account configured
\* (no password, login rejected, subscription long expired) has removed the
\* account, so that every later authentify is such a no-op until an account
\* is configured again.
C20_NoAccountIsNoOp ==
    [][ /\ (pc = "auth" /\ NoAccountConfigured)
           => /\ authret' = "False"
              /\ ret'.kind \notin {"error", "transport"}
              /\ call.op = "authentify" => ret' = Returned("False", NoReply)
              /\ config' = config
              /\ keyring' = keyring
              /\ fetched' = fetched
              /\ logins' = logins
              /\ sends' = sends
              /\ messages' = messages
              /\ sent' = sent
        /\ (pc \in {"auth", "interpret"} /\ ~NoAccountConfigured
              /\ authret' = "False")
           => /\ config'.plus_account = None
              /\ config'.token = None
              /\ config'.passwd = None ]_vars

C20_Witness ==
    /\ DispatchDone("authentify")
    /\ ReturnedWithoutAccount
    /\ ret = Returned("False", NoReply)
    /\ config.app_window
    /\ config.plus_account = None
    /\ config.token = "t1"
    /\ keyring = "pw"

=============================================================================
